---- MODULE Spec2Model ----
(***************************************************************************)
(* A model of the static Huffman coder of wlonestar/huffman.              *)
(*                                                                         *)
(* src/huffman.hpp is the library (huff_tree, huffman_encoder,             *)
(* huffman_decoder); src/main.cpp is an earlier stand-alone draft of the   *)
(* same program.  The variable `variant' says which of the two is running; *)
(* the two differ only in write_contents and read_contents.                *)
(*                                                                         *)
(* Characters '0' and '1' of the code strings are modelled by the numbers  *)
(* 0 and 1, bytes by the numbers 0..255, and a file by its sequence of     *)
(* bytes.  A pointer to a node of the encoder's tree is modelled by the    *)
(* node itself, a null pointer by the empty tuple and a non-null child by  *)
(* a one-element tuple.  The decoder's tree is modelled by a function from *)
(* paths (bit sequences from the root) to nodes: a child pointer is null   *)
(* exactly when its path is not in the function's domain.                  *)
(***************************************************************************)
EXTENDS Integers, Sequences, FiniteSets, TLC

\* ------------------------------------------------------------------ bounds

\* Longest input of the exhaustive input set.
MaxLen == 5
\* Number of distinct byte values of the exhaustive input set.
NumSyms == 3
\* Number of byte values of the frequency distributions of SpecBuild.
OptSyms == 4
\* Largest count of one byte value in the frequency distributions of SpecBuild.
OptMaxFreq == 5
\* Number of byte values of the frequency distributions of SpecTable.
TableSyms == 4
\* Largest count of one byte value in the frequency distributions of SpecTable.
TableMaxFreq == 2
\* Largest value an uninitialized size_t member is drawn from.
UninitMax == 2
\* Longest code length a corrupted table entry is given.
TamperMaxLen == 2

\* ------------------------------------------------------- program constants

\* #define HUFF_MAGIC 0x4655482e
HUFF_MAGIC == 1179994158
\* huff_code(uint8_t v = ' ', uint32_t f = 1)
SPACE == 32
\* sizeof(huff_head), __packed__: uint32 + uint16 + uint16
HEAD_SIZE == 8
\* sizeof(huff_entry), __packed__: uint8 + uint8 + uint16
ENTRY_SIZE == 4
\* std::bitset<16> in write_entry, uint16_t huff_entry::code
CODE_BITS == 16

Pow2(n) == 2 ^ n

\* ------------------------------------------------------------ sequences

Min(a, b) == IF a < b THEN a ELSE b

RECURSIVE SeqSum(_, _)
\* f[1] + ... + f[n]
SeqSum(f, n) == IF n = 0 THEN 0 ELSE f[n] + SeqSum(f, n - 1)

RECURSIVE SortedSeq(_)
\* The elements of a set of numbers in ascending order: the iteration
\* order of std::map<uint8_t, ...>.
SortedSeq(S) ==
  IF S = {} THEN <<>>
  ELSE LET m == CHOOSE x \in S : \A y \in S : x <= y
       IN <<m>> \o SortedSeq(S \ {m})

RECURSIVE BitsValue(_, _)
\* The number whose binary digits, most significant first, are the first
\* n elements of bits: what std::bitset<N>(str).to_ulong() returns for a
\* string of n <= N characters.
BitsValue(bits, n) ==
  IF n = 0 THEN 0 ELSE 2 * BitsValue(bits, n - 1) + bits[n]

\* Bit i of val, as (val & (1 << i)) >> i computes it for val >= 0.
BitAt(val, i) == (val \div Pow2(i)) % 2

\* ------------------------------------------------------------ the inputs

Alphabet == 0 .. NumSyms - 1

\* Every byte sequence of length 0..MaxLen over Alphabet.
Inputs == UNION {[1 .. n -> Alphabet] : n \in 0 .. MaxLen}

RECURSIVE Runs(_, _)
\* The input made of f[1] bytes 0, then f[2] bytes 1, ..., f[k] bytes k-1.
Runs(f, k) ==
  IF k = 0 THEN <<>> ELSE Runs(f, k - 1) \o [j \in 1 .. f[k] |-> k - 1]

RunSeq(f) == Runs(f, Len(f))

RECURSIVE FibSeq(_)
\* The first n >= 2 Fibonacci numbers 1, 1, 2, 3, 5, ...
FibSeq(n) ==
  IF n <= 2 THEN <<1, 1>>
  ELSE LET p == FibSeq(n - 1) IN Append(p, p[n - 1] + p[n - 2])

\* An input with CODE_BITS + 2 distinct bytes whose counts are the
\* Fibonacci numbers: its Huffman tree is a chain, and its two deepest
\* leaves have codes of CODE_BITS + 1 bits.
SkewInput == RunSeq(FibSeq(CODE_BITS + 2))

\* The frequency distributions of SpecBuild: counts 0..OptMaxFreq of the
\* bytes 0..OptSyms-1, in non-increasing order (the model breaks ties in
\* every possible way, so the order of the symbols does not matter).
SortedFreqs ==
  {f \in [1 .. OptSyms -> 0 .. OptMaxFreq] :
     \A i \in 1 .. OptSyms - 1 : f[i] >= f[i + 1]}

\* The frequency distributions of SpecTable: as SortedFreqs, for
\* TableSyms byte values with counts 0..TableMaxFreq.
TableFreqs ==
  {f \in [1 .. TableSyms -> 0 .. TableMaxFreq] :
     \A i \in 1 .. TableSyms - 1 : f[i] >= f[i + 1]}

\* An input with CODE_BITS + 1 distinct bytes whose counts are the
\* Fibonacci numbers: its two deepest leaves have codes of exactly
\* CODE_BITS bits, the longest that fit the code field of huff_entry.
DeepInput == RunSeq(FibSeq(CODE_BITS + 1))

\* The orders in which the n entries of a table are laid out in a file:
\* every permutation for a small table, the written order and its
\* reverse for a large one.
Orders(n) ==
  IF n <= TableSyms
  THEN {o \in [1 .. n -> 1 .. n] : \A i, j \in 1 .. n : i # j => o[i] # o[j]}
  ELSE {[k \in 1 .. n |-> k], [k \in 1 .. n |-> n + 1 - k]}

\* ------------------------------------------------------ the encoder's tree

\* struct huff_node with its huff_code data.  freq is a uint32_t and is at
\* most the length of the input, which stays far below 2^32 here.
Node(type, val, freq, left, right) ==
  [type |-> type, val |-> val, freq |-> freq, code |-> <<>>,
   left |-> left, right |-> right]

\* new huff_node(huff_code(ch)) in _maps_generator, then freq++ per occurrence
LeafNode(ch, freq) == Node("LEAF", ch, freq, <<>>, <<>>)

\* new huff_node(huff_code(' ', left->freq + right->freq), left, right, INTERNAL)
InternalNode(left, right) ==
  Node("INTERNAL", SPACE, left.freq + right.freq, <<left>>, <<right>>)

\* _maps_generator: the count of each byte value that occurs in s.
MapsOf(s) ==
  LET present == {s[i] : i \in 1 .. Len(s)}
  IN [ch \in present |->
        LeafNode(ch, Cardinality({i \in 1 .. Len(s) : s[i] = ch}))]

\* huff_node::Compare orders the priority queue by a->freq > b->freq, so
\* q.top() is a node of least freq.  Which of several nodes of the same
\* least freq is on top is left to the library's heap: any of them.
TopMutant(S) == {n \in S : \A m \in S : n.freq >= m.freq}
Top(S) == {n \in S : \A m \in S : n.freq <= m.freq}

\* (t == 0 ? "0" : "1")
EdgeBitMutant(t) == 0
EdgeBit(t) == IF t = 0 THEN 0 ELSE 1

RECURSIVE EncodeNode(_, _, _, _)
\* __encode_node(p, prefix, t) for a non-null p; isRoot is p == _root.
\* The result is the subtree with every code assigned.
EncodeNode(p, prefix, t, isRoot) ==
  LET code == IF isRoot THEN p.code ELSE Append(prefix, EdgeBit(t))
      sub(child, b) ==
        IF child = <<>> THEN <<>>
        ELSE <<EncodeNode(child[1], code, b, FALSE)>>
  IN IF ~isRoot /\ p.type = "LEAF"
     THEN [p EXCEPT !.code = code]
     ELSE [p EXCEPT !.code = code,
                    !.left = sub(p.left, 0),
                    !.right = sub(p.right, 1)]

RECURSIVE Leaves(_)
\* The LEAF nodes of a tree.
Leaves(p) ==
  IF p.type = "LEAF" THEN {p}
  ELSE (IF p.left = <<>> THEN {} ELSE Leaves(p.left[1]))
       \cup (IF p.right = <<>> THEN {} ELSE Leaves(p.right[1]))

\* _map[ch] after _encode_node: the map holds pointers to the leaves, so
\* it sees the codes assigned in the tree.
MapOf(tree, keys) ==
  [ch \in keys |-> CHOOSE n \in Leaves(tree) : n.val = ch]

RECURSIVE ConcatCodes(_, _, _, _)
\* for (auto ch: src) dst.append(_map[ch]->data.code), for src[lo..hi]
ConcatCodes(m, s, lo, hi) ==
  IF lo > hi THEN <<>>
  ELSE IF lo = hi THEN m[s[lo]].code
  ELSE LET mid == (lo + hi) \div 2
       IN ConcatCodes(m, s, lo, mid) \o ConcatCodes(m, s, mid + 1, hi)

\* for (auto val: _map) _list.push_back(val.second->data)
ListOf(m) ==
  LET keys == SortedSeq(DOMAIN m)
  IN [i \in 1 .. Len(keys) |->
        [val |-> keys[i], freq |-> m[keys[i]].freq, code |-> m[keys[i]].code]]

\* ------------------------------------------------------------ the container

\* A uint16_t / uint32_t as memcpy lays it out (little-endian).
U16LE(x) == <<x % 256, (x \div 256) % 256>>
U32LE(x) ==
  <<x % 256, (x \div 256) % 256, (x \div 65536) % 256, (x \div 16777216) % 256>>

\* huff_head_init(head, t.size(), last_length) and the memcpy of write_head:
\* both arguments are narrowed to uint16_t.
HeadBytes(sz, last) ==
  U32LE(HUFF_MAGIC) \o U16LE(sz % 65536) \o U16LE(last % 65536)

\* std::bitset<16> b(code.c_str()): a bitset built from a string longer
\* than its width takes the first 16 characters.
Bitset16(code) == BitsValue(code, Min(Len(code), CODE_BITS))

\* One entry of write_entry: val, (uint8_t) code.size(), b.to_ulong().
EntryBytes(item) ==
  <<item.val, Len(item.code) % 256>> \o U16LE(Bitset16(item.code))

RECURSIVE TableBytes(_, _)
\* write_entry: the entries of l[1..n], in order.
TableBytes(l, n) ==
  IF n = 0 THEN <<>> ELSE TableBytes(l, n - 1) \o EntryBytes(l[n])

\* std::bitset<8> b(d.substr(i, 8)) for the 8 characters after position i
FullByte(d, i) == BitsValue([k \in 1 .. 8 |-> d[i + k]], 8)

\* The last byte of write_contents.  huffman.hpp appends '0' characters up
\* to 8 before the conversion; main.cpp converts the short string as it is.
LastByte(d, v) ==
  LET i == 8 * (Len(d) \div 8)
      rest == [k \in 1 .. Len(d) - i |-> d[i + k]]
  IN IF v = "hpp"
     THEN BitsValue([k \in 1 .. 8 |-> IF k <= Len(rest) THEN rest[k] ELSE 0], 8)
     ELSE BitsValue(rest, Len(rest))

\* write_contents: dst.size() / 8 full bytes, then always one more byte.
ContentsBytes(d, v) ==
  [k \in 1 .. Len(d) \div 8 |-> FullByte(d, 8 * (k - 1))] \o <<LastByte(d, v)>>

\* ------------------------------------------------------------ the decoder

\* The uint16_t that memcpy reads from two bytes.
FromU16LE(b0, b1) == b0 + 256 * b1

\* The uint32_t that memcpy reads from four bytes.
FromU32LE(b0, b1, b2, b3) == b0 + 256 * b1 + 65536 * b2 + 16777216 * b3

\* Byte k (from 1) of the stream of file f; past the end of the file
\* in.read() stores nothing, and the new char[] buffer keeps whatever it
\* held: g.
ByteAt(f, k, g) == IF k >= 1 /\ k <= Len(f) THEN f[k] ELSE g

\* (val & (1 << i)) >> i in convert_uint16_to_01_str, val a uint16_t and
\* 1 << i an int.  For i >= 31 the shift is undefined (at i = 31 the mask
\* is above every uint16_t): the processor either takes the count modulo
\* 32 (ub = "wrap") or shifts the bit out (ub = "zero").
ShiftBit(val, i, ub) ==
  IF i < 31 THEN BitAt(val, i)
  ELSE IF ub = "wrap" /\ i % 32 < 31 THEN BitAt(val, i % 32)
  ELSE 0

\* A reading of the code field that takes bit 0 first.
ConvertMutant(val, len, ub) ==
  [k \in 1 .. len |-> ShiftBit(val, k - 1, ub)]

\* convert_uint16_to_01_str(val, len, dst): bits len-1 .. 0 of val, the
\* highest first.
ConvertUint16To01Str(val, len, ub) ==
  [k \in 1 .. len |-> ShiftBit(val, len - k, ub)]

\* One pass of the loop of read_entry: the k-th entry of the table.
EntryAt(f, k, g, ub) ==
  LET at == HEAD_SIZE + ENTRY_SIZE * (k - 1)
  IN [val |-> ByteAt(f, at + 1, g),
      freq |-> 1,
      code |-> ConvertUint16To01Str(
                 FromU16LE(ByteAt(f, at + 3, g), ByteAt(f, at + 4, g)),
                 ByteAt(f, at + 2, g), ub)]

\* new huff_node(): a LEAF holding huff_code(), whose val is ' '.
NewNode(type) == [type |-> type, val |-> SPACE, code |-> <<>>]

\* huff_tree::build, the inner loop for one item: the walk from the root
\* along item.code.  Every node on the way, whether it was there already
\* or is linked now, gets data = huff_code(item.val) with the code of
\* its parent plus the character, which is its own path; a node that is
\* linked now is a LEAF at the last character and INTERNAL before it,
\* and a node that was there already keeps its type.
BuildWalk(tree, item) ==
  LET paths == {SubSeq(item.code, 1, i) : i \in 1 .. Len(item.code)}
  IN [x \in DOMAIN tree \cup paths |->
        IF x \in paths
        THEN [type |-> IF x \in DOMAIN tree THEN tree[x].type
                       ELSE IF Len(x) = Len(item.code) THEN "LEAF"
                       ELSE "INTERNAL",
              val |-> item.val,
              code |-> x]
        ELSE tree[x]]

RECURSIVE BuildList(_, _)
\* huff_tree::build: _root = new huff_node(), then every item of l[1..n].
BuildList(l, n) ==
  IF n = 0 THEN [x \in {<<>>} |-> NewNode("LEAF")]
  ELSE BuildWalk(BuildList(l, n - 1), l[n])

\* int cont_bytes = file_size - sizeof(huff_head) - sizeof(huff_entry) * entry_size
ContBytes(f, n) == Len(f) - HEAD_SIZE - ENTRY_SIZE * n

\* The 8 characters of one full byte, bit 7 first, for the bytes
\* buffer[0 .. cont_bytes - 2].
FullBits(f, at, n) ==
  [j \in 1 .. 8 * n |-> BitAt(f[at + ((j - 1) \div 8) + 1], 7 - ((j - 1) % 8))]

\* huffman.hpp, read_contents: int end = (last_length == 0) ? -1 : (7 - last_length);
\* for (int i = 7; i > end; i--): bits 7 .. end+1 of the last byte.
LastBitsHpp(ch, last) ==
  LET end == IF last = 0 THEN -1 ELSE 7 - last
  IN [j \in 1 .. 7 - end |-> BitAt(ch, 8 - j)]

\* main.cpp, read_contents: the test i >= 7 - last_length of the last loop.
\* last_length is a size_t, so both sides are compared as size_t: a
\* negative i and a last_length above 7 both wrap to values above 2^63.
MainLoopTest(i, last) ==
  LET lhsWraps == i < 0
      rhsWraps == last > 7
  IN IF lhsWraps = rhsWraps THEN i >= 7 - last ELSE lhsWraps

\* main.cpp: whether for (int i = 7; i >= 7 - last_length; i--) leaves the
\* loop while i is still a bit index; if not, the test stays true for
\* every negative i.
MainLoopExits(last) == \E i \in 0 .. 7 : ~MainLoopTest(i, last)

\* main.cpp: the bits the last loop appends when it exits: bit 7 down to
\* the last i that passes the test.
LastBitsMain(ch, last) ==
  LET n == Cardinality({i \in 0 .. 7 : \A k \in i .. 7 : MainLoopTest(k, last)})
  IN [j \in 1 .. n |-> BitAt(ch, 8 - j)]

\* One character of huff_tree::decode from the state st = [p, out, ok]:
\* p the path of the current node, out the bytes emitted, ok FALSE once
\* p has become a null pointer that p->type dereferences.
DecodeStep(tree, st, ch) ==
  LET c == Append(st.p, ch)
  IN IF ~st.ok THEN st
     ELSE IF c \notin DOMAIN tree THEN [st EXCEPT !.ok = FALSE]
     ELSE IF tree[c].type = "LEAF"
          THEN [p |-> <<>>, out |-> Append(st.out, tree[c].val), ok |-> TRUE]
          ELSE [st EXCEPT !.p = c]

RECURSIVE DecodeRange(_, _, _, _, _)
\* huff_tree::decode over the characters bits[lo..hi].
DecodeRange(tree, bits, lo, hi, st) ==
  IF lo > hi \/ ~st.ok THEN st
  ELSE IF lo = hi THEN DecodeStep(tree, st, bits[lo])
  ELSE LET mid == (lo + hi) \div 2
       IN DecodeRange(tree, bits, mid + 1, hi,
                      DecodeRange(tree, bits, lo, mid, st))

\* huff_tree::decode(src, dst)
TreeDecode(tree, bits) ==
  DecodeRange(tree, bits, 1, Len(bits), [p |-> <<>>, out |-> <<>>, ok |-> TRUE])

\* ---------------------------------------------------------------- state

VARIABLES
  variant,         \* "hpp": src/huffman.hpp, "main": src/main.cpp
  pc,              \* the next step of the program
  src,             \* encoder: the input bytes
  map,             \* encoder: _map, byte value -> its leaf
  q,               \* encoder: the priority queue of _build
  root,            \* encoder: _root (<<>> is nullptr)
  size,            \* encoder: _size
  list,            \* encoder: _list
  dst,             \* encoder: the concatenated codes
  last_length,     \* encoder: dst.size() % 8
  file,            \* the container file
  tampered,        \* whether the file was changed after the encoder wrote it
  head_rc,         \* decoder: what read_head returned
  in_pos,          \* decoder: bytes of the file consumed
  entry_size,      \* decoder: entry_size
  dec_last_length, \* decoder: last_length
  dec_list,        \* decoder: _list
  dec_tree,        \* decoder: the tree of build(), path -> node
  dec_src,         \* decoder: the characters read_contents produced
  dec_dst,         \* decoder: the bytes decode() produced
  out              \* decoder: the bytes written to the output file

encVars == <<src, map, q, root, size, list, dst, last_length>>

decVars ==
  <<tampered, head_rc, in_pos, entry_size, dec_last_length, dec_list,
    dec_tree, dec_src, dec_dst, out>>

vars == <<variant, pc, file, encVars, decVars>>

\* The values of bytes and members that are read before anything was
\* stored in them.
Uninit == 0 .. UninitMax

InitEncoder(inputs, variants) ==
  /\ variant \in variants
  /\ src \in inputs
  /\ pc = "start"
  /\ map = <<>>
  /\ q = {}
  /\ root = <<>>
  /\ size = 0
  /\ list = <<>>
  /\ dst = <<>>
  /\ last_length = 0
  /\ file = <<>>
  /\ tampered = FALSE
  /\ head_rc = 0
  /\ in_pos = 0
  /\ entry_size = 0
  /\ dec_last_length = 0
  /\ dec_list = <<>>
  /\ dec_tree = <<>>
  /\ dec_src = <<>>
  /\ dec_dst = <<>>
  /\ out = <<>>

\* _build, first part: _maps_generator, every leaf pushed on the queue,
\* node_size = q.size().
MapsGenerator ==
  /\ pc = "start"
  /\ map' = MapsOf(src)
  /\ q' = {map'[ch] : ch \in DOMAIN map'}
  /\ size' = Cardinality(q')
  /\ pc' = "build"
  /\ UNCHANGED <<variant, src, root, list, dst, last_length, file, decVars>>

\* _build, one turn of while (q.size() >= 2): pop left, pop right, push
\* their parent.
MergeStep ==
  /\ pc = "build"
  /\ Cardinality(q) >= 2
  /\ \E left \in Top(q) :
       \E right \in Top(q \ {left}) :
         q' = (q \ {left, right}) \cup {InternalNode(left, right)}
  /\ UNCHANGED <<variant, pc, src, map, root, size, list, dst, last_length, file, decVars>>

\* _build, after the loop: assert(q.size() == 1) aborts the program on an
\* empty queue; otherwise _root = q.top() and _encode_node().
BuildFinish ==
  /\ pc = "build"
  /\ Cardinality(q) < 2
  /\ \/ /\ Cardinality(q) # 1
        /\ pc' = "abort"
        /\ UNCHANGED <<root, map>>
     \/ /\ Cardinality(q) = 1
        /\ \E top \in q :
             /\ root' = <<EncodeNode(top, top.code, 0, TRUE)>>
             /\ map' = MapOf(root'[1], DOMAIN map)
        /\ pc' = "encode"
  /\ UNCHANGED <<variant, src, q, size, list, dst, file, last_length, decVars>>

\* huff_tree::encode after _build: the list of codes and the bit string.
Encode ==
  /\ pc = "encode"
  /\ list' = ListOf(map)
  /\ dst' = ConcatCodes(map, src, 1, Len(src))
  /\ pc' = "write_head"
  /\ UNCHANGED <<variant, src, map, q, root, size, last_length, file, decVars>>

\* last_length = dst.size() % 8; write_head()
WriteHead ==
  /\ pc = "write_head"
  /\ last_length' = Len(dst) % 8
  /\ file' = file \o HeadBytes(size, last_length')
  /\ pc' = "write_entry"
  /\ UNCHANGED <<variant, src, map, q, root, size, list, dst, decVars>>

\* write_entry()
WriteEntry ==
  /\ pc = "write_entry"
  /\ file' = file \o TableBytes(list, Len(list))
  /\ pc' = "write_contents"
  /\ UNCHANGED <<variant, src, map, q, root, size, list, dst, last_length, decVars>>

\* write_contents()
WriteContents ==
  /\ pc = "write_contents"
  /\ file' = file \o ContentsBytes(dst, variant)
  /\ pc' = "written"
  /\ UNCHANGED <<variant, src, map, q, root, size, list, dst, last_length, decVars>>

\* The decoder is given a file that is not what the encoder wrote: its
\* first byte is another one, so the magic number does not match.
TamperMagic ==
  /\ pc = "written"
  /\ ~tampered
  /\ \E b \in {0, 255} : file' = [file EXCEPT ![1] = b]
  /\ tampered' = TRUE
  /\ UNCHANGED <<variant, pc, encVars, head_rc, in_pos, entry_size,
                 dec_last_length, dec_list, dec_tree, dec_src, dec_dst, out>>

\* The decoder is given a file in which one table entry has another code
\* length and other code bits.
TamperEntry ==
  /\ pc = "written"
  /\ ~tampered
  /\ variant = "hpp"
  /\ \E k \in 1 .. Len(list) :
       \E len \in 1 .. TamperMaxLen :
         \E code \in 0 .. Pow2(len) - 1 :
           LET at == HEAD_SIZE + ENTRY_SIZE * (k - 1)
           IN file' = [file EXCEPT ![at + 2] = len,
                                   ![at + 3] = code % 256,
                                   ![at + 4] = code \div 256]
  /\ tampered' = TRUE
  /\ UNCHANGED <<variant, pc, encVars, head_rc, in_pos, entry_size,
                 dec_last_length, dec_list, dec_tree, dec_src, dec_dst, out>>

\* The decoder is given a file with the same header, the same table
\* entries and the same body, the entries laid out in another order
\* (read_entry pushes them on the list in the order of the file).
ReorderEntries ==
  /\ pc = "written"
  /\ ~tampered
  /\ variant = "hpp"
  /\ Len(list) >= 2
  /\ \E o \in Orders(Len(list)) :
       /\ \E k \in 1 .. Len(list) : o[k] # k
       /\ file' = [x \in 1 .. Len(file) |->
                    IF x > HEAD_SIZE /\ x <= HEAD_SIZE + ENTRY_SIZE * Len(list)
                    THEN LET e == (x - HEAD_SIZE - 1) \div ENTRY_SIZE
                             off == (x - HEAD_SIZE - 1) % ENTRY_SIZE
                         IN file[HEAD_SIZE + ENTRY_SIZE * (o[e + 1] - 1) + off + 1]
                    ELSE file[x]]
  /\ tampered' = TRUE
  /\ UNCHANGED <<variant, pc, encVars, head_rc, in_pos, entry_size,
                 dec_last_length, dec_list, dec_tree, dec_src, dec_dst, out>>

\* read_head(): on a magic mismatch it returns -1 before it stores
\* entry_size and last_length, which no constructor initializes; read()
\* drops the result and goes on.
ReadHead ==
  /\ pc = "written"
  /\ in_pos' = HEAD_SIZE
  /\ IF FromU32LE(file[1], file[2], file[3], file[4]) = HUFF_MAGIC
     THEN /\ head_rc' = 0
          /\ entry_size' = FromU16LE(file[5], file[6])
          /\ dec_last_length' = FromU16LE(file[7], file[8])
     ELSE /\ head_rc' = -1
          /\ entry_size' \in Uninit
          /\ dec_last_length' \in Uninit
  /\ pc' = "read_entry"
  /\ UNCHANGED <<variant, file, encVars, tampered, dec_list, dec_tree,
                 dec_src, dec_dst, out>>

\* read_entry(): entry_size entries, then t.set_list(list).
ReadEntry ==
  /\ pc = "read_entry"
  /\ \E g \in Uninit, ub \in {"wrap", "zero"} :
       dec_list' = [k \in 1 .. entry_size |-> EntryAt(file, k, g, ub)]
  /\ in_pos' = Min(Len(file), in_pos + ENTRY_SIZE * entry_size)
  /\ pc' = "tree_build"
  /\ UNCHANGED <<variant, file, encVars, tampered, head_rc, entry_size,
                 dec_last_length, dec_tree, dec_src, dec_dst, out>>

\* t.build() (huffman.hpp), rebuild_tree(v, t) (main.cpp)
Build ==
  /\ pc = "tree_build"
  /\ dec_tree' = BuildList(dec_list, Len(dec_list))
  /\ pc' = "read_contents"
  /\ UNCHANGED <<variant, file, encVars, tampered, head_rc, in_pos,
                 entry_size, dec_last_length, dec_list, dec_src, dec_dst, out>>

\* read_contents().  new char[cont_bytes] throws for a negative
\* cont_bytes and nothing catches it; for cont_bytes = 0 the last byte
\* buffer[-1] is a byte outside the buffer.
ReadContents ==
  /\ pc = "read_contents"
  /\ LET n == ContBytes(file, entry_size)
     IN \/ /\ n < 0
           /\ pc' = "abort"
           /\ UNCHANGED <<in_pos, dec_src>>
        \/ /\ n >= 0
           /\ in_pos' = in_pos + n
           /\ \E g \in Uninit :
                LET ch == IF n = 0 THEN g ELSE file[in_pos + n]
                    full == FullBits(file, in_pos, IF n = 0 THEN 0 ELSE n - 1)
                IN IF variant = "hpp"
                   THEN /\ dec_src' = full \o LastBitsHpp(ch, dec_last_length)
                        /\ pc' = "decode"
                   ELSE IF MainLoopExits(dec_last_length)
                   THEN /\ dec_src' = full \o LastBitsMain(ch, dec_last_length)
                        /\ pc' = "decode"
                   ELSE /\ dec_src' = full
                        /\ pc' = "runaway"
  /\ UNCHANGED <<variant, file, encVars, tampered, head_rc, entry_size,
                 dec_last_length, dec_list, dec_tree, dec_dst, out>>

\* huffman_decoder::write(): t.decode(src, dst), then out.write(dst).
\* Reading p->type through a null p ends the program.
Decode ==
  /\ pc = "decode"
  /\ LET r == TreeDecode(dec_tree, dec_src)
     IN /\ dec_dst' = r.out
        /\ IF r.ok
           THEN out' = r.out /\ pc' = "done"
           ELSE out' = <<>> /\ pc' = "crash"
  /\ UNCHANGED <<variant, file, encVars, tampered, head_rc, in_pos,
                 entry_size, dec_last_length, dec_list, dec_tree, dec_src>>

NextEnc ==
  \/ MapsGenerator
  \/ MergeStep
  \/ BuildFinish
  \/ Encode
  \/ WriteHead
  \/ WriteEntry
  \/ WriteContents

NextDec ==
  \/ ReadHead
  \/ ReadEntry
  \/ Build
  \/ ReadContents
  \/ Decode

Next ==
  \/ NextEnc
  \/ TamperMagic
  \/ TamperEntry
  \/ NextDec

\* Every input of the exhaustive set, and the skewed input, through the
\* encoder and the decoder of both programs.
Init == InitEncoder(Inputs \cup {SkewInput}, {"hpp", "main"})

Spec == Init /\ [][Next]_vars

\* The frequency distributions of SortedFreqs through huff_tree::_build.
NextBuild ==
  \/ MapsGenerator
  \/ MergeStep
  \/ BuildFinish

InitBuild == InitEncoder({RunSeq(f) : f \in SortedFreqs}, {"hpp"})

SpecBuild == InitBuild /\ [][NextBuild]_vars

\* The code tables of TableFreqs and of DeepInput, written by
\* write_entry, laid out in any order, read by read_entry and rebuilt by
\* huff_tree::build.
NextTable ==
  \/ NextEnc
  \/ ReorderEntries
  \/ ReadHead
  \/ ReadEntry
  \/ Build

InitTable ==
  InitEncoder({RunSeq(f) : f \in TableFreqs} \cup {DeepInput}, {"hpp"})

SpecTable == InitTable /\ [][NextTable]_vars

\* ---------------------------------------------------------------- claims

\* The program has ended: normally ("done"), by the failed assert or an
\* uncaught exception ("abort"), by a null pointer dereference ("crash"),
\* or in a loop whose test can no longer fail ("runaway").
Stopped == {"done", "abort", "crash", "runaway"}

\* The decoder has passed build().
TreeBuilt == {"read_contents", "decode", "done", "crash", "runaway"}

\* a is a prefix of b (a = b included).
IsPrefix(a, b) ==
  /\ Len(a) <= Len(b)
  /\ \A i \in 1 .. Len(a) : a[i] = b[i]

\* sum(freq(s) * len(code(s))) over the symbols of m
Cost(m) ==
  LET keys == SortedSeq(DOMAIN m)
  IN SeqSum([i \in 1 .. Len(keys) |-> m[keys[i]].freq * Len(m[keys[i]].code)],
            Len(keys))

SetMin(S) == CHOOSE x \in S : \A y \in S : x <= y

RECURSIVE BestCost(_, _, _, _)
\* The least sum of fs[j] * l[j] for j = i .. Len(fs) over all lengths l[j]
\* in 1 .. k whose Kraft sum, in units of 2^-k, is at most budget.  By
\* Kraft's inequality the lengths of the prefix-free binary codes of n
\* symbols are exactly the l with sum 2^-l[j] <= 1, and a length above
\* n - 1 is never needed.  The sum fs[j] * k is what all lengths k cost.
BestCost(fs, i, budget, k) ==
  IF i > Len(fs) THEN 0
  ELSE LET rest == Len(fs) - i
           fits == {l \in 1 .. k : Pow2(k - l) + rest <= budget}
       IN SetMin({fs[i] * l + BestCost(fs, i + 1, budget - Pow2(k - l), k) :
                    l \in fits})

\* The least cost of a prefix-free binary code for the symbols of m.
OptCost(m) ==
  LET keys == SortedSeq(DOMAIN m)
      fs == [i \in 1 .. Len(keys) |-> m[keys[i]].freq]
  IN BestCost(fs, 1, Pow2(Len(fs)), Len(fs))

\* C1: for every input, decoding the container that huffman.hpp's encoder
\* wrote ends normally with an output equal to the input.
C1_RoundTrip ==
  (variant = "hpp" /\ ~tampered /\ pc \in Stopped)
    => (pc = "done" /\ out = src)

\* C2: on the empty input the encoder never stands in _build with an
\* empty queue, never fails the assert, and the container it writes is a
\* header with symbol count 0 and nothing after it.
C2_EmptyInputShortCircuits ==
  (variant = "hpp" /\ Len(src) = 0)
    => /\ ~(pc = "build" /\ q = {})
       /\ pc # "abort"
       /\ (pc = "written" /\ ~tampered => file = HeadBytes(0, 0))

\* C3: for an input of one byte value repeated n >= 1 times the tree is
\* a single leaf, the code of the symbol has length 1, the bit stream
\* has length n, and the table entry records length 1.
C3_SingleSymbolOneBit ==
  (variant = "hpp" /\ pc \in {"write_head", "write_entry", "write_contents"}
     /\ Len(list) = 1)
    => /\ root[1].type = "LEAF"
       /\ Len(list[1].code) = 1
       /\ Len(dst) = Len(src)
       /\ (pc = "write_contents" => file[HEAD_SIZE + 2] = 1)

\* C4: when some code is longer than the 16-bit code field, no table
\* entry is written; and every entry that is written reads back, through
\* read_entry and convert_uint16_to_01_str, as the assigned code.
C4_CodeOverflowDetected ==
  (variant = "hpp" /\ ~tampered /\ pc \in {"write_contents", "written"})
    => /\ \A k \in 1 .. Len(list) : Len(list[k].code) <= CODE_BITS
       /\ \A k \in 1 .. Len(list) :
            EntryAt(file, k, 0, "zero").code = list[k].code

\* C5: after read_head found another magic number, no byte after the
\* header is read, no tree is built and nothing is written.
C5_MagicMismatchStops ==
  (variant = "hpp" /\ head_rc = -1)
    => /\ in_pos = HEAD_SIZE
       /\ dec_list = <<>>
       /\ DOMAIN dec_tree = {}
       /\ dec_src = <<>>
       /\ pc \notin {"done", "crash"}

\* Two entries of l of which one's code is a strict prefix of the other's.
PrefixConflict(l) ==
  \E i, j \in 1 .. Len(l) :
    /\ IsPrefix(l[i].code, l[j].code)
    /\ Len(l[i].code) < Len(l[j].code)

\* C6: from a list with a prefix conflict, read from a file with the
\* right magic number, build() produces no tree; and no node below the
\* root that is marked LEAF has a child.
C6_PrefixConflictRejected ==
  (variant = "hpp" /\ head_rc = 0 /\ pc \in TreeBuilt)
    => /\ PrefixConflict(dec_list) => DOMAIN dec_tree = {}
       /\ \A p \in DOMAIN dec_tree :
            (p # <<>> /\ dec_tree[p].type = "LEAF")
              => (Append(p, 0) \notin DOMAIN dec_tree
                  /\ Append(p, 1) \notin DOMAIN dec_tree)

\* C7: after _build assigned the codes, no symbol's code is equal to or
\* a proper prefix of another symbol's code.
C7_PrefixFree ==
  pc = "encode"
    => \A a, b \in DOMAIN map :
         a # b => ~IsPrefix(map[a].code, map[b].code)

\* C7 witness: _build has assigned codes of different lengths to at
\* least three symbols.
C7_Witness ==
  /\ pc = "encode"
  /\ Cardinality(DOMAIN map) >= 3
  /\ \E a, b \in DOMAIN map : Len(map[a].code) < Len(map[b].code)

\* C8: for two or more symbols the codes of _build cost exactly the least
\* that a prefix-free binary code for these frequencies can cost,
\* however the queue breaks ties.
C8_Optimal ==
  (pc = "encode" /\ Cardinality(DOMAIN map) >= 2)
    => Cost(map) = OptCost(map)

\* C8 witness: _build has coded OptSyms symbols of at least three
\* different frequencies, in a tree that is not balanced.
C8_Witness ==
  /\ pc = "encode"
  /\ Cardinality(DOMAIN map) = OptSyms
  /\ Cardinality({map[a].freq : a \in DOMAIN map}) >= 3
  /\ \E a, b \in DOMAIN map : Len(map[a].code) + 2 <= Len(map[b].code)

\* C9: every encode call, and every decode call on a file the encoder
\* wrote, comes to its normal end, in huffman.hpp and in main.cpp: no
\* failed assert, no null pointer, no loop that cannot end.  Stated for
\* the inputs of at least two distinct byte values (the empty input and
\* the inputs of one byte value are the cases of C2 and C3).
C9_Terminates ==
  (~tampered /\ Cardinality({src[i] : i \in 1 .. Len(src)}) >= 2
     /\ pc \in Stopped)
    => pc = "done"

\* C10: when the concatenated codes have length L >= 1, the string that
\* read_contents hands to huff_tree::decode has length L, and decode
\* emits as many symbols as the input has bytes.
C10_ConsumesExactlyL ==
  (variant = "hpp" /\ ~tampered /\ Len(dst) >= 1
     /\ pc \in {"decode", "done", "crash"})
    => /\ Len(dec_src) = Len(dst)
       /\ (pc = "done" => Len(out) = Len(src))

\* C11: for a code stream of length L >= 1 the body that write_contents
\* appends to the header and the table has ceil(L/8) bytes, and the
\* header's last_length is L mod 8.
C11_BodyIsCeilBytes ==
  (variant = "hpp" /\ ~tampered /\ pc = "written" /\ Len(dst) >= 1)
    => /\ Len(file) - HEAD_SIZE - ENTRY_SIZE * Len(list) = (Len(dst) + 7) \div 8
       /\ FromU16LE(file[7], file[8]) = Len(dst) % 8

\* Walking code from the root of tree goes through nodes marked INTERNAL
\* and ends at a node marked LEAF whose val is val: every bit of code but
\* the last leaves huff_tree::decode inside the tree, and the last bit
\* makes it emit val.
WalkEndsAt(tree, code, val) ==
  /\ \A i \in 1 .. Len(code) - 1 :
       LET p == SubSeq(code, 1, i)
       IN p \in DOMAIN tree /\ tree[p].type = "INTERNAL"
  /\ code \in DOMAIN tree
  /\ tree[code].type = "LEAF"
  /\ tree[code].val = val

\* C12: for an input of at least 2 distinct symbols whose codes all have
\* 1..16 bits, the tree that build makes of the table, written by
\* write_entry and read by read_entry in any order, leads every code of
\* the table through INTERNAL nodes to a LEAF holding its symbol.
C12_TableRebuilt ==
  (pc = "read_contents" /\ Len(list) >= 2
     /\ \A k \in 1 .. Len(list) : Len(list[k].code) \in 1 .. CODE_BITS)
    => \A k \in 1 .. Len(list) :
         WalkEndsAt(dec_tree, list[k].code, list[k].val)

\* C12 witness: build has rebuilt a table whose entries were read in
\* another order than they were written and that holds a code of
\* exactly 16 bits.
C12_Witness ==
  /\ pc = "read_contents"
  /\ tampered
  /\ dec_list[1].val # list[1].val
  /\ \E k \in 1 .. Len(list) : Len(list[k].code) = CODE_BITS
  /\ \A k \in 1 .. Len(list) : Len(list[k].code) \in 1 .. CODE_BITS

====
